---- MODULE Spec2Model ----
(***************************************************************************)
(* Model of mialab/filtering/preprocessing.py: the four pre-processing     *)
(* filters ImageNormalization, SkullStripping, ImageRegistration and       *)
(* Filtering, each an execute(image, params) over SimpleITK images.        *)
(*                                                                         *)
(* Images are 1-D.  Python objects live on a heap (a sequence, an object's *)
(* id is its index); a filter call reads its arguments from the heap and   *)
(* may allocate the image it returns.  The driver records every call, with *)
(* the values its arguments had when it was made, in the history `calls`.  *)
(*                                                                         *)
(* A voxel value is a record [n, d, of]: the rational n/d (d = 1 for the   *)
(* integer pixel types, d = 0 for NaN), or, with a non-empty `of`, the     *)
(* value of the cubic B-spline through the samples `of` at the continuous  *)
(* index n/d, which the model does not compute.  float64 voxels are exact  *)
(* rationals: rounding of the division is not modelled.                    *)
(***************************************************************************)
EXTENDS Integers, Sequences, FiniteSets, TLC

VARIABLES heap, calls

vars == <<heap, calls>>

\* ---------------------------------------------------------------- bounds
MaxCalls == 2   \* execute calls the driver makes in one run
MaxLen == 3     \* voxels of an input image
MaxShift == 2   \* largest translation of a transform, in physical units

\* ------------------------------------------------------------ arithmetic
Abs(x) == IF x < 0 THEN -x ELSE x

RECURSIVE GCD(_, _)
GCD(a, b) == IF b = 0 THEN a ELSE GCD(b, a % b)

\* A plain number n/d, kept reduced with d > 0; n/0 is NaN (0/0) or +-inf.
Num(n, d) ==
    IF d = 0
    THEN [n |-> (IF n > 0 THEN 1 ELSE IF n < 0 THEN -1 ELSE 0), d |-> 0, of |-> <<>>]
    ELSE LET g == GCD(Abs(n), Abs(d))
             s == IF d < 0 THEN -1 ELSE 1
         IN  [n |-> s * (n \div g), d |-> s * (d \div g), of |-> <<>>]

NaN == Num(0, 0)

IsNaN(v) == v.of = <<>> /\ v.d = 0 /\ v.n = 0

IsNumber(v) == v.of = <<>> /\ v.d > 0

\* The value of the B-spline interpolator at continuous index num/den of arr.
Interpolated(arr, num, den) == [n |-> num, d |-> den, of |-> arr]

Less(a, b) == a.n * b.d < b.n * a.d

Sub(a, b) == Num(a.n * b.d - b.n * a.d, a.d * b.d)

Div(a, b) == Num(a.n * b.d, a.d * b.n)

\* ----------------------------------------------------------- pixel types
IntegerTypes == {"sitkInt8", "sitkUInt8", "sitkInt16"}

Width(t) == CASE t = "sitkInt8" -> 8 [] t = "sitkUInt8" -> 8 [] t = "sitkInt16" -> 16

Signed(t) == t \in {"sitkInt8", "sitkInt16"}

\* Two's-complement wrap-around of x into the integer pixel type t.
Wrap(t, x) ==
    LET m == 2 ^ Width(t)
    IN  IF Signed(t) THEN ((x + m \div 2) % m) - m \div 2 ELSE x % m

\* ------------------------------------------------------------------ heap
None == 0

Image(pixelType, origin, spacing, direction, arr) ==
    [kind |-> "image", pixelType |-> pixelType, origin |-> origin,
     spacing |-> spacing, direction |-> direction, arr |-> arr, offset |-> 0]

\* A translation by `offset` physical units.
Transform(offset) ==
    [kind |-> "transform", pixelType |-> "none", origin |-> 0,
     spacing |-> 0, direction |-> 0, arr |-> <<>>, offset |-> offset]

Size(img) == Len(img.arr)

\* origin, spacing, direction and size of an image
Geometry(img) == <<img.origin, img.spacing, img.direction, Size(img)>>

Values(img) == {img.arr[p] : p \in 1..Size(img)}

\* What an execute call hands back: the heap after it, whether it returned
\* or raised, the id of the returned image and the Resample call it made.
NoResample ==
    [interpolator |-> "none", transform |-> None, referenceImage |-> None,
     defaultPixelValue |-> 0, outputPixelType |-> "none"]

Returned(h, id, cfg) == [heap |-> h, outcome |-> "returned", result |-> id, resample |-> cfg]

Raised(h, what) == [heap |-> h, outcome |-> what, result |-> None, resample |-> NoResample]

\* -------------------------------------------------------- parameter objects
NoParams ==
    [class |-> "None", img_mask |-> None, atlas |-> None,
     transformation |-> None, is_ground_truth |-> FALSE]

\* ---------------------------------------------------- ImageNormalization
ArrMin(arr) == CHOOSE v \in {arr[p] : p \in 1..Len(arr)} :
                   \A q \in 1..Len(arr) : ~Less(arr[q], v)

ArrMax(arr) == CHOOSE v \in {arr[p] : p \in 1..Len(arr)} :
                   \A q \in 1..Len(arr) : ~Less(v, arr[q])

\* numpy's  a - b  in the array's element type
NpSubtract(t, a, b) ==
    IF t \in IntegerTypes THEN Num(Wrap(t, a.n - b.n), 1) ELSE Sub(a, b)

\* numpy's true division: the result is float64, x/0 is NaN or inf with a
\* RuntimeWarning and no exception
NpTrueDivide(a, b) == Div(a, b)

\* (img_arr - np.min(img_arr)) / (np.max(img_arr) - np.min(img_arr))
Normalized(t, arr) ==
    IF \E p \in 1..Len(arr) : IsNaN(arr[p])
    THEN [p \in 1..Len(arr) |-> NaN]
    ELSE LET lo == ArrMin(arr)
             hi == ArrMax(arr)
             den == NpSubtract(t, hi, lo)
         IN  [p \in 1..Len(arr) |-> NpTrueDivide(NpSubtract(t, arr[p], lo), den)]

\* Variant: Python's own division, which raises ZeroDivisionError.
ImageNormalization_execute_raising(h, image, params) ==
    LET img == h[image]
        img_out == Image("sitkFloat64", img.origin, img.spacing, img.direction,
                         Normalized(img.pixelType, img.arr))
    IN  IF \E p \in 1..Size(img) : IsNaN(img_out.arr[p])
        THEN Raised(h, "ZeroDivisionError")
        ELSE Returned(Append(h, img_out), Len(h) + 1, NoResample)

\* Variant: img_out.CopyInformation(image) left out, so the output has the
\* default origin 0, spacing 1 and identity direction.
ImageNormalization_execute_noCopyInformation(h, image, params) ==
    LET img == h[image]
        img_out == Image("sitkFloat64", 0, 1, 1, Normalized(img.pixelType, img.arr))
    IN  Returned(Append(h, img_out), Len(h) + 1, NoResample)

\* Variant: the result is written into the input image's buffer (an array
\* view instead of a copy) and the input image is returned.
ImageNormalization_execute_inPlace(h, image, params) ==
    LET img == h[image]
        img_out == Image("sitkFloat64", img.origin, img.spacing, img.direction,
                         Normalized(img.pixelType, img.arr))
    IN  Returned([h EXCEPT ![image] = img_out], image, NoResample)

ImageNormalization_execute(h, image, params) ==
    LET img == h[image]
        img_out == Image("sitkFloat64", img.origin, img.spacing, img.direction,
                         Normalized(img.pixelType, img.arr))
    IN  Returned(Append(h, img_out), Len(h) + 1, NoResample)

\* -------------------------------------------------------- SkullStripping
SkullStrippingParameters(img_mask) ==
    [class |-> "SkullStrippingParameters", img_mask |-> img_mask, atlas |-> None,
     transformation |-> None, is_ground_truth |-> FALSE]

\* The C++ conversion of one voxel to unsigned char, as sitk.Cast does it:
\* integers are reduced modulo 2^8, floating-point values are truncated.
\* (A floating-point value outside 0..255 is undefined there; the masks of
\* this model hold none.)
CastVoxelUInt8(t, v) ==
    IF t \in IntegerTypes
    THEN Num(v.n % (2 ^ Width("sitkUInt8")), 1)
    ELSE Num(v.n \div v.d, 1)

\* sitk.Cast(mask, sitk.sitkUInt8): a new image, the geometry kept
CastUInt8(img) ==
    Image("sitkUInt8", img.origin, img.spacing, img.direction,
          [p \in 1..Size(img) |-> CastVoxelUInt8(img.pixelType, img.arr[p])])

\* sitk.Mask(image, mask) with its defaults maskingValue = 0, outsideValue = 0
MaskVoxels(img, mask) ==
    [p \in 1..Size(img) |-> IF mask.arr[p] # Num(0, 1) THEN img.arr[p] ELSE Num(0, 1)]

SkullStripping_execute(h, image, params) ==
    IF params.class = "None"
    THEN Raised(h, "AttributeError")
    ELSE LET img == h[image]
             mask == CastUInt8(h[params.img_mask])
         IN  IF Geometry(mask) # Geometry(img)
             THEN Raised(h, "RuntimeError")
             ELSE Returned(Append(h, Image(img.pixelType, img.origin, img.spacing,
                                           img.direction, MaskVoxels(img, mask))),
                           Len(h) + 1, NoResample)

\* ----------------------------------------------------- ImageRegistration
ImageRegistrationParameters(atlas, transformation, is_ground_truth) ==
    [class |-> "ImageRegistrationParameters", img_mask |-> None, atlas |-> atlas,
     transformation |-> transformation, is_ground_truth |-> is_ground_truth]

\* Output voxel i (from 0) of sitk.Resample: the physical point of voxel i of
\* the reference grid is transformed and located in image1 at the continuous
\* index num/den.  Inside image1's buffer (-1/2 <= num/den < size - 1/2) the
\* interpolator gives the value, outside it the default pixel value does.
ResampleVoxel(img, ref, offset, cfg, i) ==
    LET point == ref.origin + i * ref.spacing * ref.direction + offset
        num == (point - img.origin) * img.direction
        den == img.spacing
        g == GCD(Abs(num), den)
    IN  IF -den <= 2 * num /\ 2 * num < (2 * Size(img) - 1) * den
        THEN IF cfg.interpolator = "sitkNearestNeighbor"
             THEN img.arr[((2 * num + den) \div (2 * den)) + 1]
             ELSE Interpolated(img.arr, num \div g, den \div g)
        ELSE Num(cfg.defaultPixelValue, 1)

Resample(h, image1, cfg) ==
    LET img == h[image1]
        ref == h[cfg.referenceImage]
    IN  Image(cfg.outputPixelType, ref.origin, ref.spacing, ref.direction,
              [p \in 1..Size(ref) |->
                  ResampleVoxel(img, ref, h[cfg.transform].offset, cfg, p - 1)])

\* Variant: the disabled call of line 144, which resamples onto the atlas.
ImageRegistration_execute_atlasReference(h, image, params) ==
    IF params.class = "None"
    THEN Raised(h, "AttributeError")
    ELSE LET cfg == [interpolator |-> IF params.is_ground_truth
                                      THEN "sitkNearestNeighbor" ELSE "sitkBSpline",
                     transform |-> params.transformation,
                     referenceImage |-> params.atlas,
                     defaultPixelValue |-> 0,
                     outputPixelType |-> h[image].pixelType]
         IN  Returned(Append(h, Resample(h, image, cfg)), Len(h) + 1, cfg)

\* Variant: the B-spline interpolator in both branches.
ImageRegistration_execute_alwaysBSpline(h, image, params) ==
    IF params.class = "None"
    THEN Raised(h, "AttributeError")
    ELSE LET cfg == [interpolator |-> "sitkBSpline",
                     transform |-> params.transformation,
                     referenceImage |-> image,
                     defaultPixelValue |-> 0,
                     outputPixelType |-> h[image].pixelType]
         IN  Returned(Append(h, Resample(h, image, cfg)), Len(h) + 1, cfg)

\* Variant: the two branches exchanged.
ImageRegistration_execute_swapped(h, image, params) ==
    IF params.class = "None"
    THEN Raised(h, "AttributeError")
    ELSE LET cfg == [interpolator |-> IF params.is_ground_truth
                                      THEN "sitkBSpline" ELSE "sitkNearestNeighbor",
                     transform |-> params.transformation,
                     referenceImage |-> image,
                     defaultPixelValue |-> 0,
                     outputPixelType |-> h[image].pixelType]
         IN  Returned(Append(h, Resample(h, image, cfg)), Len(h) + 1, cfg)

ImageRegistration_execute(h, image, params) ==
    IF params.class = "None"
    THEN Raised(h, "AttributeError")
    ELSE LET cfg == [interpolator |-> IF params.is_ground_truth
                                      THEN "sitkNearestNeighbor" ELSE "sitkBSpline",
                     transform |-> params.transformation,
                     referenceImage |-> image,
                     defaultPixelValue |-> 0,
                     outputPixelType |-> h[image].pixelType]
         IN  Returned(Append(h, Resample(h, image, cfg)), Len(h) + 1, cfg)

\* -------------------------------------------------------------- Filtering
FilteringParameters(atlas) ==
    [class |-> "FilteringParameters", img_mask |-> None, atlas |-> atlas,
     transformation |-> None, is_ground_truth |-> FALSE]

\* Variant: the disabled block of lines 206-216 switched on; it reads
\* params.atlas and returns a smoothed copy of the image.
Filtering_execute_smoothing(h, image, params) ==
    IF params.class = "None"
    THEN Raised(h, "AttributeError")
    ELSE LET img == h[image]
             at(p) == img.arr[IF p < 1 THEN 1 ELSE IF p > Size(img) THEN Size(img) ELSE p]
             smooth == [p \in 1..Size(img) |->
                           Interpolated(<<at(p - 1), at(p), at(p + 1)>>, 1, 1)]
         IN  Returned(Append(h, Image(img.pixelType, img.origin, img.spacing,
                                      img.direction, smooth)),
                      Len(h) + 1, NoResample)

Filtering_execute(h, image, params) == Returned(h, image, NoResample)

\* ------------------------------------------------------------ the driver
\* The objects the driver loads before it calls the filters, by heap id.
Inputs == <<"image", "mask", "atlas", "atlas", "transform">>

InputIds(role) == {i \in 1..Len(Inputs) : Inputs[i] = role}

\* The images a filter may be run on: the loaded image and every result.
ImageIds(h) == {i \in 1..Len(h) : i > Len(Inputs) \/ Inputs[i] = "image"}

Null == [kind |-> "null", pixelType |-> "none", origin |-> 0,
         spacing |-> 0, direction |-> 0, arr |-> <<>>, offset |-> 0]

Deref(h, id) == IF id = None THEN Null ELSE h[id]

\* The values of the objects a parameter object refers to.
ParamValues(h, params) ==
    [class |-> params.class, img_mask |-> Deref(h, params.img_mask),
     atlas |-> Deref(h, params.atlas),
     transformation |-> Deref(h, params.transformation),
     is_ground_truth |-> params.is_ground_truth]

\* One execute call: the heap becomes the one the call leaves, and the call
\* is recorded with the values of its arguments before it.
Call(filter, image, params, r) ==
    /\ Len(calls) < MaxCalls
    /\ heap' = r.heap
    /\ calls' = Append(calls,
           [filter |-> filter, image |-> image, params |-> params,
            imageVal |-> heap[image], paramVals |-> ParamValues(heap, params),
            outcome |-> r.outcome, result |-> r.result,
            resultVal |-> Deref(r.heap, r.result), resample |-> r.resample])

\* B-spline results hold values the model does not compute, so they are not
\* normalized here.
Normalize ==
    \E image \in ImageIds(heap) :
        /\ \A p \in 1..Size(heap[image]) : heap[image].arr[p].of = <<>>
        /\ Call("ImageNormalization", image, NoParams,
                ImageNormalization_execute(heap, image, NoParams))

Strip ==
    \E image \in ImageIds(heap) :
        \E params \in {NoParams} \cup {SkullStrippingParameters(m) : m \in InputIds("mask")} :
            Call("SkullStripping", image, params,
                 SkullStripping_execute(heap, image, params))

RegistrationParams ==
    {NoParams} \cup {ImageRegistrationParameters(a, t, g) :
                        a \in InputIds("atlas"), t \in InputIds("transform"), g \in BOOLEAN}

Register ==
    \E image \in ImageIds(heap) :
        \E params \in RegistrationParams :
            Call("ImageRegistration", image, params,
                 ImageRegistration_execute(heap, image, params))

Filter ==
    \E image \in ImageIds(heap) :
        \E params \in {NoParams} \cup {FilteringParameters(a) : a \in InputIds("atlas")} :
            Call("Filtering", image, params, Filtering_execute(heap, image, params))

\* ---------------------------------------------------------------- inputs
Voxels(S) == {Num(v, 1) : v \in S}

ArraysUpTo(S, n) == UNION {[1..k -> S] : k \in 1..n}

AtlasA == Image("sitkUInt8", 0, 1, 1, <<Num(10, 1), Num(20, 1)>>)

AtlasB == Image("sitkUInt8", 1, 2, -1, <<Num(10, 1), Num(20, 1), Num(30, 1)>>)

\* A mask of the image's geometry that keeps every voxel.
FullMask(img) ==
    Image("sitkUInt8", img.origin, img.spacing, img.direction,
          [p \in 1..Size(img) |-> Num(1, 1)])

Loaded(img, mask, transform) == <<img, mask, AtlasA, AtlasB, transform>>

\* The whole pipeline on a few images.
PipelineImages ==
    {Image("sitkInt16", 0, s, 1, arr) :
        s \in {1, 2}, arr \in {<<Num(0, 1), Num(3, 1)>>, <<Num(3, 1), Num(3, 1)>>}}

Init ==
    /\ \E img \in PipelineImages, k \in -MaxShift..MaxShift :
           heap = Loaded(img, FullMask(img), Transform(k))
    /\ calls = <<>>

Next == Normalize \/ Strip \/ Register \/ Filter

Spec == Init /\ [][Next]_vars

\* Normalization alone, on integer images that reach the ends of their type.
Extremes(t) == IF t = "sitkInt8" THEN {-128, 0, 127} ELSE {0, 1, 255}

NormImages ==
    UNION {{Image(t, 0, 1, 1, arr) : arr \in ArraysUpTo(Voxels(Extremes(t)), MaxLen)} :
              t \in {"sitkInt8", "sitkUInt8"}}
    \cup {Image("sitkUInt8", 0, 1, 1, <<Num(0, 1), Num(2, 1), Num(4, 1), Num(6, 1), Num(8, 1)>>)}

InitNorm ==
    /\ \E img \in NormImages : heap = Loaded(img, FullMask(img), Transform(0))
    /\ calls = <<>>

NextNorm == Normalize

SpecNorm == InitNorm /\ [][NextNorm]_vars

\* Skull stripping alone, on masks of several pixel types.
SkullImage(n) ==
    Image("sitkInt16", 0, 1, 1, [p \in 1..n |-> Num(p * (IF p % 2 = 0 THEN -7 ELSE 5), 1)])

MaskVoxelsOf(t) ==
    CASE t = "sitkUInt8" -> Voxels({0, 1, 255})
      [] t = "sitkInt16" -> Voxels({0, -1, 256})
      [] t = "sitkFloat64" -> {Num(0, 1), Num(1, 2), Num(1, 1)}

Masks ==
    UNION {{Image(t, o, 1, 1, arr) : o \in {0, 1}, arr \in ArraysUpTo(MaskVoxelsOf(t), MaxLen)} :
              t \in {"sitkUInt8", "sitkInt16", "sitkFloat64"}}

InitSkull ==
    /\ \E n \in 1..MaxLen, mask \in Masks : heap = Loaded(SkullImage(n), mask, Transform(0))
    /\ calls = <<>>

NextSkull == Strip

SpecSkull == InitSkull /\ [][NextSkull]_vars

\* Registration alone, on label images and translations by half voxels.
LabelImages == {Image("sitkUInt8", 0, 2, 1, arr) : arr \in ArraysUpTo(Voxels({0, 1, 2}), MaxLen)}

InitReg ==
    /\ \E img \in LabelImages, k \in -MaxShift..MaxShift :
           heap = Loaded(img, FullMask(img), Transform(k))
    /\ calls = <<>>

NextReg == Register

SpecReg == InitReg /\ [][NextReg]_vars

\* ---------------------------------------------------------------- claims
CallsOf(filter) == {i \in 1..Len(calls) : calls[i].filter = filter}

IsNumeric(img) == \A p \in 1..Size(img) : IsNumber(img.arr[p])

NonConstant(img) == \E p, q \in 1..Size(img) : img.arr[p] # img.arr[q]

Zero == Num(0, 1)

One == Num(1, 1)

\* (in - min(in)) / (max(in) - min(in)) in exact arithmetic
ExactRescaled(arr, p) == Div(Sub(arr[p], ArrMin(arr)), Sub(ArrMax(arr), ArrMin(arr)))

\* C1: normalizing a non-constant image, of any pixel type, gives an image
\* whose minimum voxel value is 0 and whose maximum voxel value is 1.
C1_OutputMinZeroMaxOne ==
    \A i \in CallsOf("ImageNormalization") :
        (IsNumeric(calls[i].imageVal) /\ NonConstant(calls[i].imageVal)) =>
            /\ calls[i].outcome = "returned"
            /\ ArrMin(calls[i].resultVal.arr) = Zero
            /\ ArrMax(calls[i].resultVal.arr) = One

\* C5: every output voxel of a normalization of a non-constant image is
\* (in - min) / (max - min) in exact arithmetic: values lie in [0, 1], the
\* order of the voxels is kept, and [0,2,4,6,8] maps to [0, 1/4, 1/2, 3/4, 1].
C5_OutputIsExactLinearRescaling ==
    \A i \in CallsOf("ImageNormalization") :
        LET in == calls[i].imageVal.arr
            out == calls[i].resultVal.arr
        IN  (IsNumeric(calls[i].imageVal) /\ NonConstant(calls[i].imageVal)) =>
                /\ calls[i].outcome = "returned"
                /\ \A p \in 1..Len(in) :
                      /\ out[p] = ExactRescaled(in, p)
                      /\ ~Less(out[p], Zero) /\ ~Less(One, out[p])
                /\ \A p, q \in 1..Len(in) : ~Less(in[q], in[p]) => ~Less(out[q], out[p])
                /\ in = <<Num(0, 1), Num(2, 1), Num(4, 1), Num(6, 1), Num(8, 1)>> =>
                       out = <<Zero, Num(1, 4), Num(1, 2), Num(3, 4), One>>

C2_MaskDecidesEveryVoxel ==
    \A i \in CallsOf("SkullStripping") :
        calls[i].outcome = "returned" =>
            \A p \in 1..Size(calls[i].imageVal) :
                LET m == calls[i].paramVals.img_mask.arr[p]
                    out == calls[i].resultVal.arr[p]
                IN  /\ m = Zero => out = Zero
                    /\ m # Zero => out = calls[i].imageVal.arr[p]

GroundTruthCalls ==
    {i \in CallsOf("ImageRegistration") :
        calls[i].outcome = "returned" /\ calls[i].params.is_ground_truth}

\* C3 (as stated): the voxel values of a registered ground-truth image all
\* occur in the input image.
C3_OnlyInputLabels ==
    \A i \in GroundTruthCalls : Values(calls[i].resultVal) \subseteq Values(calls[i].imageVal)

\* C3 (amended): the voxel values of a registered ground-truth image all
\* occur in the input image or are the fill value 0.
C3_InputLabelsOrFill ==
    \A i \in GroundTruthCalls :
        Values(calls[i].resultVal) \subseteq (Values(calls[i].imageVal) \cup {Zero})

C3_Witness ==
    \E i \in GroundTruthCalls :
        /\ Zero \in Values(calls[i].resultVal)
        /\ Zero \notin Values(calls[i].imageVal)
        /\ Values(calls[i].resultVal) \cap Values(calls[i].imageVal) # {}

\* C4: Filtering returns its input image itself, unchanged, whatever the
\* params are (None included): params.atlas is not read.
C4_FilteringReturnsItsInput ==
    \A i \in CallsOf("Filtering") :
        /\ calls[i].outcome = "returned"
        /\ calls[i].result = calls[i].image
        /\ calls[i].resultVal = calls[i].imageVal
        /\ heap[calls[i].result] = calls[i].imageVal

C4_Witness ==
    \E i, j \in CallsOf("Filtering") :
        /\ calls[i].params.class = "None"
        /\ calls[j].params.class = "FilteringParameters"
        /\ Geometry(calls[j].paramVals.atlas) # Geometry(calls[j].imageVal)
        /\ calls[i].outcome = "returned" /\ calls[j].outcome = "returned"

\* C6: the image a filter returns has the origin, spacing, direction and
\* size of the image it was given, registration included.
C6_GeometryIsKept ==
    \A i \in 1..Len(calls) :
        calls[i].outcome = "returned" =>
            Geometry(calls[i].resultVal) = Geometry(calls[i].imageVal)

C6_Witness ==
    \E i \in CallsOf("ImageRegistration"), j \in CallsOf("ImageNormalization") :
        /\ calls[i].outcome = "returned" /\ calls[j].outcome = "returned"
        /\ Geometry(calls[i].paramVals.atlas) # Geometry(calls[i].imageVal)
        /\ Geometry(calls[j].imageVal) # Geometry(Image("sitkFloat64", 0, 1, 1, calls[j].imageVal.arr))

\* C8: the filters are stateless and leave their arguments alone: (1) every
\* object passed to a call still holds the value it had before that call,
\* (2) calls of one filter with equal argument values end alike and return
\* equal images.
C8_ArgumentsKeptAndResultsRepeat ==
    /\ \A i \in 1..Len(calls) :
          /\ heap[calls[i].image] = calls[i].imageVal
          /\ ParamValues(heap, calls[i].params) = calls[i].paramVals
    /\ \A i, j \in 1..Len(calls) :
          (/\ calls[i].filter = calls[j].filter
           /\ calls[i].imageVal = calls[j].imageVal
           /\ calls[i].paramVals = calls[j].paramVals) =>
              /\ calls[i].outcome = calls[j].outcome
              /\ calls[i].resultVal = calls[j].resultVal

C8_Witness ==
    \E i, j \in 1..Len(calls) :
        /\ i < j
        /\ calls[i].filter = calls[j].filter
        /\ calls[i].filter \in {"ImageNormalization", "SkullStripping", "ImageRegistration"}
        /\ calls[i].image = calls[j].image /\ calls[i].params = calls[j].params
        /\ calls[i].outcome = "returned" /\ calls[j].outcome = "returned"
        /\ calls[i].result # calls[j].result
        /\ NonConstant(calls[i].imageVal)

RegistrationCalls ==
    {i \in CallsOf("ImageRegistration") : calls[i].outcome = "returned"}

\* C9: registration resamples with the nearest-neighbour interpolator when
\* is_ground_truth is set and with the cubic B-spline otherwise; either way
\* with the transform of params, the default pixel value 0 and the pixel
\* type of the input image.
C9_ResamplingFollowsTheFlag ==
    \A i \in RegistrationCalls :
        LET c == calls[i]
        IN  /\ c.resample.interpolator =
                   (IF c.params.is_ground_truth THEN "sitkNearestNeighbor" ELSE "sitkBSpline")
            /\ c.resample.transform = c.params.transformation
            /\ c.resample.defaultPixelValue = 0
            /\ c.resample.outputPixelType = c.imageVal.pixelType
            /\ c.resultVal.pixelType = c.imageVal.pixelType
            /\ \A p \in 1..Size(c.resultVal) :
                   LET v == c.resultVal.arr[p]
                   IN  \/ v = Zero
                       \/ c.params.is_ground_truth /\ v \in Values(c.imageVal)
                       \/ ~c.params.is_ground_truth /\ v.of = c.imageVal.arr

C9_Witness ==
    \E i, j \in RegistrationCalls :
        /\ calls[i].params.is_ground_truth /\ ~calls[j].params.is_ground_truth
        /\ calls[i].imageVal = calls[j].imageVal
        /\ Zero \in Values(calls[i].resultVal)
        /\ \E p \in 1..Size(calls[i].resultVal) :
               calls[i].resultVal.arr[p] # Zero /\ calls[j].resultVal.arr[p].of # <<>>

\* C10: two registrations of the same image with the same transformation and
\* flag give equal images whatever their atlases are.
C10_AtlasDoesNotMatter ==
    \A i, j \in RegistrationCalls :
        (/\ calls[i].imageVal = calls[j].imageVal
         /\ calls[i].paramVals.transformation = calls[j].paramVals.transformation
         /\ calls[i].params.is_ground_truth = calls[j].params.is_ground_truth) =>
            calls[i].resultVal = calls[j].resultVal

C10_Witness ==
    \E i, j \in RegistrationCalls :
        /\ calls[i].imageVal = calls[j].imageVal
        /\ calls[i].params.is_ground_truth = calls[j].params.is_ground_truth
        /\ Geometry(calls[i].paramVals.atlas) # Geometry(calls[j].paramVals.atlas)
        /\ NonConstant(calls[i].resultVal)

====
